---- MODULE Spec2Model ----
(***************************************************************************)
(* Model of generate-og-images.py: the diagonal gradient renderer          *)
(* (create_gradient_background), the two card composers (create_og_image,  *)
(* create_twitter_image), main, and the module-level try/except ImportError*)
(* that wraps the whole script.                                            *)
(*                                                                         *)
(* Two specifications share the module:                                    *)
(*   GradSpec  create_gradient_background run pixel by pixel on small      *)
(*             canvases, for colours drawn from Colors;                    *)
(*   Spec      one run of the script from the import to process exit.      *)
(***************************************************************************)
EXTENDS Integers, Sequences, FiniteSets, TLC

VARIABLES
    \* ---- create_gradient_background (GradSpec) ----
    width, height, color1, color2,  \* the call's arguments
    x, y,                           \* loop indices of lines 28-29
    pixels,                         \* the pixel access object of line 25
    gpc,                            \* "loop" | "returned"
    \* ---- the script run (Spec) ----
    pc,                             \* position in the script
    stdout,                         \* lines printed so far
    exit_status,                    \* -1 while running, else the process status
    exc,                            \* exception raised and not caught, or "None"
    img,                            \* canvas local to create_og_image/create_twitter_image
    title_font, subtitle_font, tagline_font,
    og_img, twitter_img,            \* main's locals
    files                           \* files written, in order

gvars == <<width, height, color1, color2, x, y, pixels, gpc>>
mvars == <<pc, stdout, exit_status, exc, img, title_font, subtitle_font,
           tagline_font, og_img, twitter_img, files>>
vars == <<width, height, color1, color2, x, y, pixels, gpc,
          pc, stdout, exit_status, exc, img, title_font, subtitle_font,
          tagline_font, og_img, twitter_img, files>>

----------------------------------------------------------------------------
(* Brand colours and dimensions, lines 11-20.  A colour is the string      *)
(* "#rrggbb", kept as its sequence of characters so that slicing works.    *)

DARK_BG       == <<"#", "0", "f", "0", "f", "2", "3">>
ACCENT_PURPLE == <<"#", "8", "b", "5", "c", "f", "6">>
ACCENT_CYAN   == <<"#", "0", "6", "b", "6", "d", "4">>
WHITE         == <<"#", "f", "f", "f", "f", "f", "f">>
LIGHT_GRAY    == <<"#", "e", "5", "e", "7", "e", "b">>

WIDTH  == 1200
HEIGHT == 630

----------------------------------------------------------------------------
(* int(s, 16) on a two-character slice.                                    *)

HexDigit(c) ==
    CASE c = "0" -> 0  [] c = "1" -> 1  [] c = "2" -> 2  [] c = "3" -> 3
      [] c = "4" -> 4  [] c = "5" -> 5  [] c = "6" -> 6  [] c = "7" -> 7
      [] c = "8" -> 8  [] c = "9" -> 9
      [] c \in {"a", "A"} -> 10  [] c \in {"b", "B"} -> 11
      [] c \in {"c", "C"} -> 12  [] c \in {"d", "D"} -> 13
      [] c \in {"e", "E"} -> 14  [] c \in {"f", "F"} -> 15

\* int(color[a:a+2], 16) with a the 0-based slice start of the source
HexByte(color, a) == 16 * HexDigit(color[a + 1]) + HexDigit(color[a + 2])

\* the (r, g, b) of lines 32-33
ParseColor(color) == <<HexByte(color, 1), HexByte(color, 3), HexByte(color, 5)>>

----------------------------------------------------------------------------
(* Python float arithmetic (IEEE-754 binary64, round to nearest, ties to   *)
(* even) on the values lines 31-37 produce.  A value v >= 0 is held        *)
(* exactly as IntLimbs + FracLimbs digits in base 2^LimbBits, the most     *)
(* significant first, the binary point after the first IntLimbs digits.    *)
(* Every double that occurs for width + height < 2^11 and 8-bit channels   *)
(* is such a value, so nothing but the rounding below loses precision.     *)

MantBits  == 53
LimbBits  == 16
IntLimbs  == 1
FracLimbs == 4
NumLimbs  == IntLimbs + FracLimbs
Base      == 2 ^ LimbBits

\* position (counted from the least significant bit of the value) of the
\* lowest bit of limb i
LimbLow(i) == (NumLimbs - i) * LimbBits

IntToVec(k) ==
    [i \in 1..NumLimbs |->
        IF i <= IntLimbs THEN (k \div (Base ^ (IntLimbs - i))) % Base ELSE 0]

\* the first k fraction limbs of rem/n (rem < n), by long division
RECURSIVE DivLimbs(_, _, _)
DivLimbs(rem, n, k) ==
    IF k = 0 THEN <<>>
    ELSE <<(rem * Base) \div n>> \o DivLimbs((rem * Base) % n, n, k - 1)

\* the remainder left after k fraction limbs
RECURSIVE DivRem(_, _, _)
DivRem(rem, n, k) == IF k = 0 THEN rem ELSE DivRem((rem * Base) % n, n, k - 1)

Bit(v, q) == (v[NumLimbs - (q \div LimbBits)] \div (2 ^ (q % LimbBits))) % 2

\* position of the leading 1 of v, -1 when v = 0
LeadingOne(v) ==
    IF \A i \in 1..NumLimbs : v[i] = 0 THEN -1
    ELSE LET i == CHOOSE k \in 1..NumLimbs :
                      v[k] # 0 /\ \A j \in 1..(k - 1) : v[j] = 0
             b == CHOOSE k \in 0..(LimbBits - 1) :
                      v[i] \div (2 ^ k) = 1
         IN  LimbLow(i) + b

\* v with the bits below position q cleared
ClearBelow(v, q) ==
    [i \in 1..NumLimbs |->
        IF LimbLow(i) >= q THEN v[i]
        ELSE IF LimbLow(i) + LimbBits <= q THEN 0
        ELSE v[i] - (v[i] % (2 ^ (q - LimbLow(i))))]

\* 2^q as a value
PowVec(q) ==
    [i \in 1..NumLimbs |->
        IF LimbLow(i) <= q /\ q < LimbLow(i) + LimbBits
        THEN 2 ^ (q - LimbLow(i)) ELSE 0]

\* limbs 1..i of a + b + carry, carry entering at limb i
RECURSIVE AddFrom(_, _, _, _)
AddFrom(a, b, i, carry) ==
    IF i = 0 THEN <<>>
    ELSE LET t == a[i] + b[i] + carry
         IN  Append(AddFrom(a, b, i - 1, t \div Base), t % Base)

Add(a, b) == AddFrom(a, b, NumLimbs, 0)

\* limbs 1..i of a - b - borrow, for a >= b
RECURSIVE SubFrom(_, _, _, _)
SubFrom(a, b, i, borrow) ==
    IF i = 0 THEN <<>>
    ELSE LET t == a[i] - b[i] - borrow
         IN  Append(SubFrom(a, b, i - 1, IF t < 0 THEN 1 ELSE 0), t % Base)

Sub(a, b) == SubFrom(a, b, NumLimbs, 0)

\* limbs 1..i of v * d + carry, for a small natural d
RECURSIVE MulFrom(_, _, _, _)
MulFrom(v, d, i, carry) ==
    IF i = 0 THEN <<>>
    ELSE LET t == v[i] * d + carry
         IN  Append(MulFrom(v, d, i - 1, t \div Base), t % Base)

MulSmall(v, d) == MulFrom(v, d, NumLimbs, 0)

\* v rounded to MantBits significant bits, ties to even; sticky: the value
\* has non-zero bits below the last limb
RoundDouble(v, sticky) ==
    LET p   == LeadingOne(v)
        cut == p - (MantBits - 1)       \* position of the last kept bit
    IN  IF p < 0 \/ cut <= 0 THEN v
        ELSE LET guard == Bit(v, cut - 1)
                 rest  == sticky \/ ClearBelow(v, cut - 1) # v
                 kept  == ClearBelow(v, cut)
                 up    == guard = 1 /\ (rest \/ Bit(v, cut) = 1)
             IN  IF up THEN Add(kept, PowVec(cut)) ELSE kept

\* int(v): the integer part
TruncInt(v) ==
    LET RECURSIVE Acc(_, _)
        Acc(i, a) == IF i > IntLimbs THEN a ELSE Acc(i + 1, a * Base + v[i])
    IN  Acc(1, 0)

\* a slip: coordinates counted from 1
RatioFromOne(s, n) ==
    RoundDouble([i \in 1..IntLimbs |-> 0] \o DivLimbs(s + 1, n, FracLimbs),
                DivRem(s + 1, n, FracLimbs) # 0)

\* line 31: ratio = (x + y) / (width + height), a float
Ratio(s, n) ==
    RoundDouble([i \in 1..IntLimbs |-> 0] \o DivLimbs(s, n, FracLimbs),
                DivRem(s, n, FracLimbs) # 0)

\* round(v), Python's round of a float: to nearest, ties to even
RoundInt(v) ==
    LET q    == TruncInt(v)
        h    == FracLimbs * LimbBits - 1     \* position of the 1/2 bit
        rest == ClearBelow(v, h) # v
    IN  IF Bit(v, h) = 1 /\ (rest \/ q % 2 = 1) THEN q + 1 ELSE q

\* (c2 - c1) * ratio, its magnitude, as a float
ScaledDelta(c1, c2, ratio) ==
    RoundDouble(MulSmall(ratio, IF c2 < c1 THEN c1 - c2 ELSE c2 - c1), FALSE)

\* c1 + (c2 - c1) * ratio as a float.  The sum is never negative:
\* |(c2 - c1) * ratio| <= c1 when c2 < c1.
MixFloat(c1, c2, ratio) ==
    RoundDouble(IF c2 < c1 THEN Sub(IntToVec(c1), ScaledDelta(c1, c2, ratio))
                           ELSE Add(IntToVec(c1), ScaledDelta(c1, c2, ratio)),
                FALSE)

\* a slip: round() where the source has int()
MixChannelRounded(c1, c2, ratio) == RoundInt(MixFloat(c1, c2, ratio))

\* a slip: c1 + c2 - c1 * ratio, the parentheses of (c2 - c1) lost
MixChannelNoParens(c1, c2, ratio) ==
    TruncInt(RoundDouble(Sub(IntToVec(c1 + c2), ScaledDelta(c1, 0, ratio)), FALSE))

\* lines 35-37: int(c1 + (c2 - c1) * ratio) for one channel
MixChannel(c1, c2, ratio) == TruncInt(MixFloat(c1, c2, ratio))

\* lines 31-39: the (r, g, b) written to pixels[x, y]
GradientPixel(w, h, c1, c2, px, py) ==
    LET ratio == Ratio(px + py, w + h)
        a     == ParseColor(c1)
        b     == ParseColor(c2)
    IN  <<MixChannel(a[1], b[1], ratio),
          MixChannel(a[2], b[2], ratio),
          MixChannel(a[3], b[3], ratio)>>

----------------------------------------------------------------------------
(* create_gradient_background, lines 22-41, one loop iteration per step.   *)

MaxWidth  == 7
MaxHeight == 3

BLACK      == <<"#", "0", "0", "0", "0", "0", "0">>
VIOLET     == <<"#", "5", "a", "0", "0", "f", "f">>
NEAR_DARK  == <<"#", "0", "d", "1", "2", "2", "3">>

Colors == {BLACK, VIOLET, NEAR_DARK, DARK_BG, ACCENT_CYAN, ACCENT_PURPLE}

\* Python's None, and the value of a name not yet bound
None == [kind |-> "None"]

\* the script's variables while no script runs
ScriptIdle ==
    /\ pc = "idle" /\ stdout = <<>> /\ exit_status = -1 /\ exc = None
    /\ img = None /\ title_font = None /\ subtitle_font = None
    /\ tagline_font = None /\ og_img = None /\ twitter_img = None
    /\ files = <<>>

\* lines 24-25: Image.new('RGB', (width, height), color1) and image.load()
NewImage(w, h, color) ==
    [p \in (0..(w - 1)) \X (0..(h - 1)) |-> ParseColor(color)]

GradInit ==
    /\ width \in 1..MaxWidth
    /\ height \in 1..MaxHeight
    /\ color1 \in Colors
    /\ color2 \in Colors
    /\ x = 0
    /\ y = 0
    /\ pixels = NewImage(width, height, color1)
    /\ gpc = "loop"
    /\ ScriptIdle

\* lines 28-39: one iteration of the inner loop, then the loop headers
GradientStep ==
    /\ gpc = "loop"
    /\ pixels' = [pixels EXCEPT ![<<x, y>>] =
                      GradientPixel(width, height, color1, color2, x, y)]
    /\ IF y + 1 < height
       THEN /\ y' = y + 1
            /\ UNCHANGED <<x, gpc>>
       ELSE IF x + 1 < width
            THEN /\ x' = x + 1
                 /\ y' = 0
                 /\ UNCHANGED gpc
            ELSE /\ gpc' = "returned"      \* line 41
                 /\ UNCHANGED <<x, y>>
    /\ UNCHANGED <<width, height, color1, color2>>
    /\ UNCHANGED mvars

GradNext == GradientStep

GradSpec == GradInit /\ [][GradNext]_vars

\* the pixels the loop has written so far
Written ==
    {p \in DOMAIN pixels :
        \/ gpc = "returned"
        \/ p[1] < x
        \/ (p[1] = x /\ p[2] < y)}

Channels == 1..3

\* the exact rational c1 + (c2 - c1) * s / n as numerator over n
MixNum(c1, c2, s, n) == c1 * n + (c2 - c1) * s

\* that value truncated (it is never negative)
ExactTrunc(c1, c2, s, n) == MixNum(c1, c2, s, n) \div n

\* that value rounded to nearest, ties to even, clamped to [0,255]
ExactRound(c1, c2, s, n) ==
    LET q == MixNum(c1, c2, s, n) \div n
        r == MixNum(c1, c2, s, n) % n
        v == IF 2 * r > n \/ (2 * r = n /\ q % 2 = 1) THEN q + 1 ELSE q
    IN  IF v < 0 THEN 0 ELSE IF v > 255 THEN 255 ELSE v

C1v(k) == ParseColor(color1)[k]
C2v(k) == ParseColor(color2)[k]

----------------------------------------------------------------------------
(* The script run: the module-level try (line 7), main (lines 135-159) and *)
(* the except ImportError clause (lines 164-169).                          *)

\* an exception in flight: its class and the statement that raised it
Raised(type, at) == [type |-> type, at |-> at]

\* `except ImportError` matches ImportError and its subclasses
ImportErrorClasses == {"ImportError", "ModuleNotFoundError"}

\* a slip: a bare `except:` at module level
ModuleHandlerCatchesAll(e) == TRUE

\* line 164: does the module-level clause catch e
ModuleHandlerCatches(e) == e.type \in ImportErrorClasses

\* a slip: `except OSError:` where the source has a bare `except:`
FontHandlerCatchesOSError(e) == e.type = "OSError"

\* lines 53 and 100: the bare `except:` catches whatever truetype() raises
FontHandlerCatches(e) == TRUE

\* what a failing `from PIL import ...` raises
ImportFailures == {"ModuleNotFoundError", "ImportError"}

\* what ImageFont.truetype raises: the file cannot be opened (OSError), or
\* the FreeType binding is missing (ImportError)
FontFailures == {"OSError", "ImportError"}

\* what Image.save raises when the file cannot be written
WriteFailures == {"OSError", "FileNotFoundError", "PermissionError"}

\* lines 165-168
ImportErrorMessage ==
    <<"Error: PIL (Pillow) is not installed.",
      "To create the images, install Pillow:",
      "  pip install Pillow",
      "Or use the included specification document to create images manually.">>

\* a slip: the handler prints and falls off the end of the script
ImportErrorNoExit == [status |-> 0, pc |-> "exited"]

\* line 169: exit(1)
ImportErrorExit == [status |-> 1, pc |-> "exited"]

\* an exception no clause catches: traceback on stderr, status 1
UncaughtExit == [status |-> 1, pc |-> "crashed"]

OUTPUT_DIR   == "/home/fastl/JustLayMe-react/public"

OgPath       == <<OUTPUT_DIR, "og-image.jpg">>

\* a slip: the OG path pasted into the Twitter block
TwitterPathPasted == OgPath

TwitterPath  == <<OUTPUT_DIR, "twitter-image.jpg">>

BOLD    == "/usr/share/fonts/truetype/dejavu/DejaVuSans-Bold.ttf"
REGULAR == "/usr/share/fonts/truetype/dejavu/DejaVuSans.ttf"

TrueType(file, size) == [kind |-> "truetype", file |-> file, size |-> size]

\* ImageFont.load_default()
DefaultFont == [kind |-> "default"]

\* create_gradient_background as the composers see it: a canvas of the given
\* size whose pixel (px, py) is GradientPixel(w, h, c1, c2, px, py) until
\* something is drawn over it
CreateCanvas(w, h, c1, c2) ==
    [size |-> <<w, h>>, color1 |-> c1, color2 |-> c2,
     shapes |-> <<>>, texts |-> <<>>]

\* the widths draw.textbbox can measure: narrower than the canvas, exactly
\* as wide, and wider
MeasuredWidths == {541, WIDTH, 1301}

\* draw.textbbox((0, 0), text, font): (left, top, right, bottom)
TextBBoxes == {<<l, 0, l + T, 0>> : l \in {0, 4}, T \in MeasuredWidths}

\* a slip: floor division, (WIDTH - text_width) // 2
FloorDiv2(n) == [whole |-> n \div 2, half |-> 0]

\* n / 2 for an int n, Python's true division: whole + half/2
TrueDiv2(n) == [whole |-> n \div 2, half |-> n % 2]

\* lines 69-72 and alike: measure, centre, draw
DrawCentered(canvas, text, font, bbox, ypos, fill) ==
    LET text_width == bbox[3] - bbox[1]
        text_x     == TrueDiv2(WIDTH - text_width)
    IN  [canvas EXCEPT !.texts = Append(@,
            [text |-> text, x |-> text_x, y |-> ypos, fill |-> fill,
             font |-> font, measured_with |-> font, width |-> text_width])]

Init ==
    /\ pc = "import"
    /\ stdout = <<>>
    /\ exit_status = -1
    /\ exc = None
    /\ img = None
    /\ title_font = None /\ subtitle_font = None /\ tagline_font = None
    /\ og_img = None /\ twitter_img = None
    /\ files = <<>>
    /\ width = 0 /\ height = 0 /\ color1 = None /\ color2 = None
    /\ x = 0 /\ y = 0 /\ pixels = <<>> /\ gpc = "idle"

\* line 8: from PIL import Image, ImageDraw, ImageFont
ImportPIL ==
    /\ pc = "import"
    /\ \/ /\ pc' = "main"
          /\ UNCHANGED exc
       \/ \E e \in ImportFailures :
             /\ exc' = Raised(e, "import")
             /\ pc' = "raised"
    /\ UNCHANGED <<stdout, exit_status, img, title_font, subtitle_font,
                   tagline_font, og_img, twitter_img, files>>
    /\ UNCHANGED gvars

\* the first statement of main after the banner: line 141
MainFirstStepTwitter == "tw_gradient"

MainFirstStep == "og_gradient"

\* lines 161-162, 136-138
MainBegin ==
    /\ pc = "main"
    /\ stdout' = Append(stdout, "Generating OG and Twitter Card images...")
    /\ pc' = MainFirstStep
    /\ UNCHANGED <<exit_status, exc, img, title_font, subtitle_font,
                   tagline_font, og_img, twitter_img, files>>
    /\ UNCHANGED gvars

\* lines 45-46 and 92-93: the gradient canvas of a card
Gradient(here, c2, next) ==
    /\ pc = here
    /\ img' = CreateCanvas(WIDTH, HEIGHT, DARK_BG, c2)
    /\ pc' = next
    /\ UNCHANGED <<stdout, exit_status, exc, title_font, subtitle_font,
                   tagline_font, og_img, twitter_img, files>>
    /\ UNCHANGED gvars

\* lines 49-56 and 96-103: three truetype loads; the first that fails sends
\* control to the except clause, which sets all three fonts to the default
LoadFonts(here, titleSize, subtitleSize, taglineSize, next) ==
    /\ pc = here
    /\ \/ /\ title_font'    = TrueType(BOLD, titleSize)
          /\ subtitle_font' = TrueType(REGULAR, subtitleSize)
          /\ tagline_font'  = TrueType(REGULAR, taglineSize)
          /\ pc' = next
          /\ UNCHANGED exc
       \/ \E e \in FontFailures :
             IF FontHandlerCatches(Raised(e, here))
             THEN /\ title_font'    = DefaultFont
                  /\ subtitle_font' = DefaultFont
                  /\ tagline_font'  = DefaultFont
                  /\ pc' = next
                  /\ UNCHANGED exc
             ELSE /\ exc' = Raised(e, here)
                  /\ pc' = "raised"
                  /\ UNCHANGED <<title_font, subtitle_font, tagline_font>>
    /\ UNCHANGED <<stdout, exit_status, img, og_img, twitter_img, files>>
    /\ UNCHANGED gvars

\* lines 59-65 and 106-110: the decorative outline
DrawShape(here, shape, next) ==
    /\ pc = here
    /\ img' = [img EXCEPT !.shapes = Append(@, shape)]
    /\ pc' = next
    /\ UNCHANGED <<stdout, exit_status, exc, title_font, subtitle_font,
                   tagline_font, og_img, twitter_img, files>>
    /\ UNCHANGED gvars

OgEllipse ==
    [kind |-> "ellipse",
     box |-> <<WIDTH - 120 * 2 - 50, HEIGHT - 120 * 2 - 30, WIDTH - 50, HEIGHT - 30>>,
     outline |-> ACCENT_PURPLE, width |-> 3]

TwitterRectangle ==
    [kind |-> "rectangle", box |-> <<50, 50, 100, 100>>,
     outline |-> ACCENT_PURPLE, width |-> 3]

\* one text entry: lines 68-72, 75-79, 82-86, 113-117, 120-124, 127-131
DrawText(here, text, font, ypos, fill, next) ==
    /\ pc = here
    /\ \E bbox \in TextBBoxes :
          img' = DrawCentered(img, text, font, bbox, ypos, fill)
    /\ pc' = next
    /\ UNCHANGED <<stdout, exit_status, exc, title_font, subtitle_font,
                   tagline_font, og_img, twitter_img, files>>
    /\ UNCHANGED gvars

\* lines 88 and 141: create_og_image returns into og_img
ReturnOg ==
    /\ pc = "og_return"
    /\ og_img' = img
    /\ img' = None
    /\ title_font' = None /\ subtitle_font' = None /\ tagline_font' = None
    /\ pc' = "og_save"
    /\ UNCHANGED <<stdout, exit_status, exc, twitter_img, files>>
    /\ UNCHANGED gvars

\* lines 133 and 147: create_twitter_image returns into twitter_img
ReturnTwitter ==
    /\ pc = "tw_return"
    /\ twitter_img' = img
    /\ img' = None
    /\ title_font' = None /\ subtitle_font' = None /\ tagline_font' = None
    /\ pc' = "tw_save"
    /\ UNCHANGED <<stdout, exit_status, exc, og_img, files>>
    /\ UNCHANGED gvars

\* lines 142-143 and 148-149: image.save(path, "JPEG", quality=90, optimize=True)
Save(here, image, path, next) ==
    /\ pc = here
    /\ \/ /\ files' = Append(files,
                 [path |-> path, size |-> image.size, format |-> "JPEG",
                  quality |-> 90])
          /\ pc' = next
          /\ UNCHANGED exc
       \/ \E e \in WriteFailures :
             /\ exc' = Raised(e, here)
             /\ pc' = "raised"
             /\ UNCHANGED files
    /\ UNCHANGED <<stdout, exit_status, img, title_font, subtitle_font,
                   tagline_font, og_img, twitter_img>>
    /\ UNCHANGED gvars

\* lines 144 and 150: print(f"Created: {path}")
PrintCreated(here, path, next) ==
    /\ pc = here
    /\ stdout' = Append(stdout, <<"Created:", path>>)
    /\ pc' = next
    /\ UNCHANGED <<exit_status, exc, img, title_font, subtitle_font,
                   tagline_font, og_img, twitter_img, files>>
    /\ UNCHANGED gvars

\* lines 152-159, then the script ends
PrintSummary ==
    /\ pc = "summary"
    /\ stdout' = stdout \o
           <<"Images generated successfully!",
             "Dimensions: 1200x630 pixels",
             "Format: JPEG (90% quality)",
             "Add to your HTML head:",
             "og:image", "og:image:width", "og:image:height", "twitter:image">>
    /\ pc' = "done"
    /\ exit_status' = 0
    /\ UNCHANGED <<exc, img, title_font, subtitle_font, tagline_font, og_img,
                   twitter_img, files>>
    /\ UNCHANGED gvars

\* lines 164-169: an exception reaches the end of the try body
ModuleExcept ==
    /\ pc = "raised"
    /\ IF ModuleHandlerCatches(exc)
       THEN /\ stdout' = stdout \o ImportErrorMessage
            /\ exit_status' = ImportErrorExit.status
            /\ pc' = ImportErrorExit.pc
       ELSE /\ exit_status' = UncaughtExit.status
            /\ pc' = UncaughtExit.pc
            /\ UNCHANGED stdout
    /\ UNCHANGED <<exc, img, title_font, subtitle_font, tagline_font, og_img,
                   twitter_img, files>>
    /\ UNCHANGED gvars

Next ==
    \/ ImportPIL
    \/ MainBegin
    \/ Gradient("og_gradient", ACCENT_CYAN, "og_fonts")
    \/ LoadFonts("og_fonts", 90, 48, 36, "og_shape")
    \/ DrawShape("og_shape", OgEllipse, "og_title")
    \/ DrawText("og_title", "JustLayMe", title_font, 150, WHITE, "og_subtitle")
    \/ DrawText("og_subtitle", "Unfiltered AI Conversations", subtitle_font,
                280, ACCENT_CYAN, "og_tagline")
    \/ DrawText("og_tagline", "Chat Without Restrictions", tagline_font,
                370, LIGHT_GRAY, "og_return")
    \/ ReturnOg
    \/ Save("og_save", og_img, OgPath, "og_created")
    \/ PrintCreated("og_created", OgPath, "tw_gradient")
    \/ Gradient("tw_gradient", ACCENT_PURPLE, "tw_fonts")
    \/ LoadFonts("tw_fonts", 85, 42, 32, "tw_shape")
    \/ DrawShape("tw_shape", TwitterRectangle, "tw_title")
    \/ DrawText("tw_title", "JustLayMe", title_font, 120, WHITE, "tw_subtitle")
    \/ DrawText("tw_subtitle", "Unfiltered AI Conversations", subtitle_font,
                250, ACCENT_PURPLE, "tw_tagline")
    \/ DrawText("tw_tagline", "Chat Without Restrictions", tagline_font,
                340, WHITE, "tw_return")
    \/ ReturnTwitter
    \/ Save("tw_save", twitter_img, TwitterPath, "tw_created")
    \/ PrintCreated("tw_created", TwitterPath, "summary")
    \/ PrintSummary
    \/ ModuleExcept

Spec == Init /\ [][Next]_vars

\* the interpreter runs the script's statements one after another until the
\* process exits
FairSpec == Spec /\ WF_vars(Next)

Terminated == pc \in {"done", "exited", "crashed"}

OgPcs == {"og_gradient", "og_fonts", "og_shape", "og_title", "og_subtitle",
          "og_tagline", "og_return", "og_save"}

TwitterPcs == {"tw_gradient", "tw_fonts", "tw_shape", "tw_title", "tw_subtitle",
               "tw_tagline", "tw_return", "tw_save"}

\* the canvases alive in the current state
Canvases == {c \in {img, og_img, twitter_img} : c # None}

\* the text entries drawn so far on any canvas
TextEntries == UNION {{c.texts[i] : i \in 1..Len(c.texts)} : c \in Canvases}

Paths == {files[i].path : i \in 1..Len(files)}

Abs(i) == IF i < 0 THEN -i ELSE i

Between(lo, v, hi) == (lo <= v /\ v <= hi) \/ (hi <= v /\ v <= lo)

\* v is c2 or the integer next to c2 on c1's side
NearEnd(c1, c2, v) ==
    IF c1 <= c2 THEN c2 - 1 <= v /\ v <= c2 ELSE c2 <= v /\ v <= c2 + 1

FarCorner == pixels[<<width - 1, height - 1>>]

----------------------------------------------------------------------------
(* Claims about create_gradient_background, checked under GradSpec.        *)

\* C1: every pixel (x,y) written has, in each channel, the exact value
\* C1 + (C2 - C1) * (x+y)/(W+H) truncated to an integer.
C1_TruncatedExact ==
    \A p \in Written : \A k \in Channels :
        pixels[p][k] = ExactTrunc(C1v(k), C2v(k), p[1] + p[2], width + height)

\* C2 as stated: every channel written equals the exact value rounded to the
\* nearest integer and clamped to [0,255].
C2_Rounded ==
    \A p \in Written : \A k \in Channels :
        pixels[p][k] = ExactRound(C1v(k), C2v(k), p[1] + p[2], width + height)

\* C2 as amended: the channel is the truncated value, not the rounded one: it
\* lies in [0,255], is never above the rounded value, is at most 1 below it,
\* and is exactly 1 below it whenever the fractional part exceeds 1/2.
C2_TruncatedNotRounded ==
    \A p \in Written : \A k \in Channels :
        LET v  == pixels[p][k]
            rn == ExactRound(C1v(k), C2v(k), p[1] + p[2], width + height)
            r  == MixNum(C1v(k), C2v(k), p[1] + p[2], width + height)
                      % (width + height)
        IN  /\ v \in 0..255
            /\ rn - 1 <= v /\ v <= rn
            /\ 2 * r > width + height => v = rn - 1

\* a pixel whose exact value has a fractional part above 1/2 has been written
C2_Witness ==
    \E p \in Written : \E k \in Channels :
        /\ 2 * (MixNum(C1v(k), C2v(k), p[1] + p[2], width + height)
                    % (width + height)) > width + height
        /\ pixels[p][k] =
               ExactRound(C1v(k), C2v(k), p[1] + p[2], width + height) - 1

\* C3 as stated: in the returned canvas pixel (0,0) equals C1 and pixel
\* (W-1,H-1) is within 1 of C2 in each channel, on C1's side.
C3_Corners ==
    gpc = "returned" =>
        /\ pixels[<<0, 0>>] = ParseColor(color1)
        /\ \A k \in Channels : NearEnd(C1v(k), C2v(k), FarCorner[k])

\* C3 as amended: pixel (0,0) equals C1; pixel (W-1,H-1) lies between C1 and
\* C2 in each channel, and is within 1 of C2 on C1's side in every channel
\* with 2 * |C2 - C1| < W + H.
C3_CornersAmended ==
    gpc = "returned" =>
        /\ pixels[<<0, 0>>] = ParseColor(color1)
        /\ \A k \in Channels :
              /\ Between(C1v(k), FarCorner[k], C2v(k))
              /\ 2 * Abs(C2v(k) - C1v(k)) < width + height
                    => NearEnd(C1v(k), C2v(k), FarCorner[k])

\* a returned canvas with a channel that changes by less than (W+H)/2 and
\* whose far corner stops one short of C2
C3_Witness ==
    /\ gpc = "returned"
    /\ \E k \in Channels :
          /\ C1v(k) < C2v(k)
          /\ 2 * Abs(C2v(k) - C1v(k)) < width + height
          /\ FarCorner[k] = C2v(k) - 1

\* C10: with no clamping anywhere, the ratio of every iteration lies in
\* [0,1), and every channel written lies between the channels of C1 and C2,
\* hence in [0,255].
C10_Between ==
    /\ x + y < width + height
    /\ TruncInt(Ratio(x + y, width + height)) = 0
    /\ \A p \in Written : \A k \in Channels :
          /\ Between(C1v(k), pixels[p][k], C2v(k))
          /\ pixels[p][k] \in 0..255

\* a finished gradient with a channel strictly between its two ends
C10_Witness ==
    /\ gpc = "returned"
    /\ \E p \in Written : \E k \in Channels :
          C1v(k) < pixels[p][k] /\ pixels[p][k] < C2v(k)

----------------------------------------------------------------------------
(* Claims about the script run, checked under Spec (C8 under FairSpec).    *)

Banner == "Generating OG and Twitter Card images..."

\* twice x + T, for a text entry e drawn at x with measured width T
TwiceRightEdge(e) == 2 * e.x.whole + e.x.half + 2 * e.width

\* x = (W - T) / 2 exactly, for a text entry e
CentredExactly(e) == 2 * e.x.whole + e.x.half = 1200 - e.width

\* C4 as stated: every text entry is drawn at x = (W - T) / 2 and
\* x + T <= W, whatever width T was measured.
C4_Centred ==
    \A e \in TextEntries :
        CentredExactly(e) /\ TwiceRightEdge(e) <= 2 * 1200

\* C4 as amended: every text entry is drawn at x = (W - T) / 2; x + T <= W
\* holds exactly when T <= W, and the code does not check it.
C4_CentredAmended ==
    \A e \in TextEntries :
        /\ CentredExactly(e)
        /\ TwiceRightEdge(e) <= 2 * 1200 <=> e.width <= 1200

\* a text wider than the canvas was drawn at a negative half-pixel offset,
\* next to one that fits
C4_Witness ==
    /\ \E e \in TextEntries :
          e.width > 1200 /\ e.x.whole < 0 /\ e.x.half = 1
    /\ \E e \in TextEntries : TwiceRightEdge(e) <= 2 * 1200

\* C5: whether the truetype loads succeed or fail, every canvas and every
\* file is 1200x630, no exception leaves the font loading, nothing is printed
\* while a card is composed, and every text is measured with the font it is
\* drawn with, which is a loaded font or the default font.
C5_FontFallback ==
    /\ \A c \in Canvases : c.size = <<1200, 630>>
    /\ \A i \in 1..Len(files) : files[i].size = <<1200, 630>>
    /\ exc # None => exc.at \notin {"og_fonts", "tw_fonts"}
    /\ pc \in OgPcs => stdout = <<Banner>>
    /\ pc \in TwitterPcs => stdout = <<Banner, <<"Created:", OgPath>>>>
    /\ \A e \in TextEntries :
          /\ e.measured_with = e.font
          /\ e.font = DefaultFont \/ e.font.kind = "truetype"
    /\ pc \in {"og_shape", "tw_shape"} =>
          \/ {title_font, subtitle_font, tagline_font} = {DefaultFont}
          \/ \A f \in {title_font, subtitle_font, tagline_font} :
                f.kind = "truetype"

\* a finished run whose OG card fell back to the default font and whose
\* Twitter card used the truetype fonts
C5_Witness ==
    /\ pc = "done"
    /\ og_img.texts[1].font = DefaultFont
    /\ twitter_img.texts[1].font.kind = "truetype"
    /\ Len(files) = 2

\* C6: when the import fails, the remediation message is printed, the
\* process exits with status 1, and no gradient is rendered, no card composed
\* and no file written.
C6_MissingDependency ==
    (exc # None /\ exc.at = "import") =>
        /\ pc \in {"raised", "exited"}
        /\ pc = "raised" => stdout = <<>> /\ ENABLED ModuleExcept
        /\ pc = "exited" => stdout = ImportErrorMessage /\ exit_status = 1
        /\ Canvases = {}
        /\ files = <<>>

\* the process has exited on a failed import
C6_Witness ==
    /\ pc = "exited"
    /\ exc # None /\ exc.at = "import"
    /\ stdout = ImportErrorMessage

\* C7: the OG file has been written before the Twitter card is begun; the
\* Twitter file is never written before the OG file.
C7_OgBeforeTwitter ==
    /\ pc \in TwitterPcs \cup {"tw_created", "summary", "done"} =>
          Len(files) >= 1 /\ files[1].path = OgPath
    /\ pc \in OgPcs \cup {"import", "main"} =>
          twitter_img = None /\ files = <<>>
    /\ (twitter_img # None \/ (img # None /\ img.color2 = ACCENT_PURPLE)) =>
          Len(files) >= 1 /\ files[1].path = OgPath
    /\ \A i \in 1..Len(files) :
          files[i].path = TwitterPath =>
              \E j \in 1..(i - 1) : files[j].path = OgPath

\* the Twitter card is being composed and the OG file is on disk
C7_Witness ==
    /\ pc = "tw_title"
    /\ img # None /\ img.color2 = ACCENT_PURPLE
    /\ Paths = {OgPath}

TwoFiles ==
    /\ pc = "done"
    /\ exit_status = 0
    /\ Len(files) = 2
    /\ files[1].path = <<OUTPUT_DIR, "og-image.jpg">>
    /\ files[2].path = <<OUTPUT_DIR, "twitter-image.jpg">>
    /\ files[1].size = <<1200, 630>>
    /\ files[2].size = <<1200, 630>>

\* C8: every run terminates, and a run in which nothing was raised (library
\* present, both writes succeeded) ends with exactly two files written,
\* og-image.jpg then twitter-image.jpg, each once, both from 1200x630
\* canvases, whichever fonts were loaded.
C8_TwoFiles ==
    /\ <>Terminated
    /\ [](Terminated /\ exc = None => TwoFiles)

\* a finished run with truetype fonts on the OG card and the default font on
\* the Twitter card
C8_Witness ==
    /\ TwoFiles
    /\ og_img.texts[1].font.kind = "truetype"
    /\ twitter_img.texts[1].font = DefaultFont

\* C9: a failed write is never caught: the run stops there with the
\* exception uncaught.  After a failed OG write no Twitter card exists, no
\* file was written and only the banner was printed; after a failed Twitter
\* write the OG file is still there and the summary was not printed; the
\* missing-library message is never printed.
C9_WriteFailureAborts ==
    /\ (exc # None /\ exc.at = "og_save") =>
          /\ pc \in {"raised", "crashed"}
          /\ files = <<>>
          /\ twitter_img = None /\ img = None
          /\ stdout = <<Banner>>
    /\ (exc # None /\ exc.at = "tw_save") =>
          /\ pc \in {"raised", "crashed"}
          /\ Len(files) = 1 /\ files[1].path = OgPath
          /\ stdout = <<Banner, <<"Created:", OgPath>>>>
    /\ (exc # None /\ exc.at \in {"og_save", "tw_save"}) =>
          /\ pc = "raised" => ENABLED ModuleExcept
          /\ pc = "crashed" => exit_status = UncaughtExit.status

\* the run crashed on the Twitter write with the OG file written
C9_Witness ==
    /\ pc = "crashed"
    /\ exc # None /\ exc.at = "tw_save"
    /\ Len(files) = 1

====
